---- MODULE Spec2Model ----
(***************************************************************************)
(* Token lifecycle manager of the Office 365 CLI (src/src/Auth.ts) and the *)
(* command `spo tenant cdn get` that uses it                               *)
(* (src/src/o365/spo/commands/tenant-cdn-get.ts).                          *)
(*                                                                         *)
(* State: the shared Service object (the TokenStore), the wall clock, the  *)
(* single timer handle Auth.interval, the set of live interval timers and, *)
(* per invocation of ensureAccessToken / getAccessToken, its promise and   *)
(* the requests it has in flight.  Every promise callback and every timer  *)
(* tick is one atomic action (single-threaded event loop).  Trace lines    *)
(* and requests are logged as opaque lines.                                *)
(*                                                                         *)
(* Specifications: Spec (Auth, callers passing the default verbose=false), *)
(* CancelSpec (Spec with a caller that stops the timer, and fairness),     *)
(* VerboseSpec (device-code flows with verbose on or off), UrlSpec         *)
(* (getResourceFromUrl) and CmdSpec (one invocation of the command).       *)
(***************************************************************************)
EXTENDS Integers, Sequences, FiniteSets, TLC

VARIABLES service, now, interval, timers, calls

\* Auth.getResourceFromUrl (static, no Auth state): its argument and its result
VARIABLES url, result

urlVars == <<url, result>>

\* The command `spo tenant cdn get` (tenant-cdn-get.ts): one invocation of its
\* action, and what auth.site.isTenantAdminSite() answers
VARIABLES cmd, tenantAdmin

cmdVars == <<cmd, tenantAdmin>>

authVars == <<service, now, interval, timers, calls>>

vars == <<service, now, interval, timers, calls, url, result, cmd, tenantAdmin>>

-----------------------------------------------------------------------------
(* Bounds of the model *)

MaxCalls == 2     \* invocations of ensureAccessToken / getAccessToken
MaxPolls == 2     \* timer ticks (poll requests) issued in a run, over all flows
MaxNow == 1       \* clock values 0..MaxNow (seconds)
MaxRest == 4      \* characters of a URL after its scheme

Resources == {"https://a.sharepoint.com", "https://b.sharepoint.com"}

-----------------------------------------------------------------------------
(* JavaScript values, tagged by type so that values of different types can *)
(* be compared (undefined, strings, numbers, booleans, objects).           *)

Undefined == [undefined |-> TRUE]
Null == [null |-> TRUE]
Str(s) == [string |-> s]
Num(n) == [number |-> n]
Bool(b) == [boolean |-> b]
Obj(o) == [object |-> o]
Arr(a) == [array |-> a]

\* JS truthiness, as used by `if (this.service.refreshToken)`
Truthy(v) ==
  CASE "undefined" \in DOMAIN v -> FALSE
    [] "null" \in DOMAIN v -> FALSE
    [] "string" \in DOMAIN v -> v.string # ""
    [] "number" \in DOMAIN v -> v.number # 0
    [] "boolean" \in DOMAIN v -> v.boolean
    [] OTHER -> TRUE

\* JS `a > b` on numbers; a comparison with undefined (NaN) is false
Gt(a, b) ==
  /\ "number" \in DOMAIN a
  /\ "number" \in DOMAIN b
  /\ a.number > b.number

\* JS property access v.f; a missing property reads as undefined
Get(v, f) ==
  IF "object" \in DOMAIN v /\ f \in DOMAIN v.object
  THEN v.object[f]
  ELSE Undefined

-----------------------------------------------------------------------------
(* Responses of the two endpoints.  A response is the settlement of the    *)
(* request-promise: ok = fulfilled with the parsed body, ~ok = rejected    *)
(* with the library's error object, whose `error` property is the parsed   *)
(* error body (status code error) or the cause (transport error).          *)

\* The token pair issued for resource r, expiring at e
Token(r, e) ==
  Obj([access_token |-> Str("AT for " \o r),
       refresh_token |-> Str("RT for " \o r),
       expires_on |-> Num(e)])

Error(code) ==
  Obj([name |-> Str("StatusCodeError"),
       error |-> Obj([error |-> Str(code),
                      error_description |-> Str("description")])])

TransportError ==
  Obj([name |-> Str("RequestError"),
       error |-> Obj([code |-> Str("ECONNRESET")])])

DeviceCode ==
  Obj([interval |-> Num(5),
       device_code |-> Str("abc"),
       message |-> Str("go to url, enter XYZ")])

\* A refresh token supplied by a caller of getAccessToken
SuppliedToken == Str("RT supplied")

\* A grant is answered with the pair for the requested resource, valid for
\* one unit of time from now
TokenResponses(r) == {[ok |-> TRUE, body |-> Token(r, now + 1)]}

\* Failures of a refresh_token grant
FailureResponses == {[ok |-> FALSE, body |-> Error("invalid_grant")],
                     [ok |-> FALSE, body |-> TransportError]}

PendingResponse == [ok |-> FALSE, body |-> Error("authorization_pending")]

\* Terminal failures of a device_code grant
PollFailures == {[ok |-> FALSE, body |-> Error("code_expired")],
                 [ok |-> FALSE, body |-> TransportError]}

DeviceCodeResponses == {[ok |-> TRUE, body |-> DeviceCode]}
                         \cup {[ok |-> FALSE, body |-> TransportError]}

-----------------------------------------------------------------------------
(* Promises: resolve and reject act only on a pending promise. *)

Pending == [state |-> "pending"]

resolve(p, v) == IF p.state = "pending" THEN [state |-> "resolved", value |-> v] ELSE p

reject(p, v) == IF p.state = "pending" THEN [state |-> "rejected", value |-> v] ELSE p

-----------------------------------------------------------------------------
(* class Service *)

Uninitialised ==
  [connected |-> Undefined, resource |-> Undefined, accessToken |-> Undefined,
   refreshToken |-> Undefined, expiresAt |-> Undefined]

\* (mutant) the expiry is not reset
disconnect_keepsExpiry(s) ==
  [s EXCEPT !.connected = Bool(FALSE),
            !.resource = Str(""),
            !.accessToken = Str(""),
            !.refreshToken = Undefined]

\* Auth.ts:10-16
disconnect(s) ==
  [s EXCEPT !.connected = Bool(FALSE),
            !.resource = Str(""),
            !.accessToken = Str(""),
            !.refreshToken = Undefined,
            !.expiresAt = Num(-1)]

-----------------------------------------------------------------------------

(* Invocations.  calls[c] is the c-th invocation of ensureAccessToken or   *)
(* getAccessToken: its arguments, its promise, the request it has in       *)
(* flight, the polls it has in flight, what it has issued so far and what  *)
(* it has logged.  store0 is the TokenStore at the time of the call, kept  *)
(* for as long as no other operation has overlapped the call or has been   *)
(* invoked after it.  cancelled records that the flow's timer was stopped  *)
(* from outside, through the public handle.                                *)

Calls == 1..Len(calls)

\* Poll requests issued so far by the first n invocations
RECURSIVE PollsIssued(_)
PollsIssued(n) == IF n = 0 THEN 0 ELSE calls[n].nPoll + PollsIssued(n - 1)

AllIdle ==
  /\ timers = {}
  /\ \A i \in Calls : calls[i].request = "none" /\ calls[i].polls = 0

Disturbed(cs) == [i \in DOMAIN cs |-> [cs[i] EXCEPT !.store0 = Undefined]]

NewCall(op, r, verbose) ==
  [op |-> op, resource |-> r, verbose |-> verbose, path |-> "none", promise |-> Pending,
   request |-> "none", reqToken |-> Undefined, polls |-> 0,
   nRefresh |-> 0, nDevice |-> 0, nPoll |-> 0, redeemed |-> FALSE,
   stdout |-> <<>>, cancelled |-> FALSE,
   store0 |-> IF AllIdle THEN Obj(service) ELSE Undefined]

\* `if (verbose) { stdout.log(...); ... }`: the lines are appended to the output
Trace(verbose, out, lines) == IF verbose THEN out \o lines ELSE out

\* Auth.ts:81-85, 124-128, 153-157, 219-223
RequestTrace == <<Str("Executing web request..."), Str("requestOptions"), Str("")>>

\* Auth.ts:89-93, 101-105, 132-136, 161-165, 175-179, 227-231
ResponseTrace(json) == <<Str("Response:"), json, Str("")>>

\* (mutant) the expiry comparison the wrong way round
CachedTokenValid_reversed(s, t) ==
  /\ Gt(Num(t), s.expiresAt)
  /\ s.accessToken # Undefined

\* Auth.ts:52-53
CachedTokenValid(s, t) ==
  /\ Gt(s.expiresAt, Num(t))
  /\ s.accessToken # Undefined

\* (mutant) the new expiry is dropped
StoreToken_keepsExpiry(s, json) ==
  [s EXCEPT !.accessToken = Get(json, "access_token"),
            !.refreshToken = Get(json, "refresh_token")]

\* Auth.ts:95-97 and 167-169
StoreToken(s, json) ==
  [s EXCEPT !.accessToken = Get(json, "access_token"),
            !.refreshToken = Get(json, "refresh_token"),
            !.expiresAt = Get(json, "expires_on")]

\* clearInterval(handle): stops the timer the handle refers to, if any
clearInterval(h) ==
  IF "timer" \in DOMAIN h THEN timers \ {h.timer} ELSE timers

-----------------------------------------------------------------------------
(* Auth.ensureAccessToken: the promise executor runs synchronously. *)

EnsureAccessToken(r, verbose) ==
  /\ Len(calls) < MaxCalls
  /\ LET c == Len(calls) + 1
         new == [NewCall("ensureAccessToken", r, verbose) EXCEPT
                   !.stdout = Trace(verbose, @, <<Str("Starting Auth.ensureAccessToken")>>)]
         call ==
           IF CachedTokenValid(service, now)
           THEN [new EXCEPT !.path = "cache",
                            !.stdout = Trace(verbose, @, <<Str("Existing access token still valid")>>),
                            !.promise = resolve(Pending, service.accessToken)]
           ELSE IF Truthy(service.refreshToken)
           THEN [new EXCEPT !.path = "refresh",
                            !.stdout = Trace(verbose, @,
                                             <<Str("No existing access token or expired"),
                                               Str("Retrieving new access token using existing refresh token")>>
                                               \o RequestTrace),
                            !.request = "refresh",
                            !.reqToken = service.refreshToken,
                            !.nRefresh = 1]
           ELSE [new EXCEPT !.path = "device",
                            !.stdout = Trace(verbose, @,
                                             <<Str("No existing access token or expired"),
                                               Str("No existing refresh token. Starting new device code flow...")>>
                                               \o RequestTrace),
                            !.request = "devicecode",
                            !.nDevice = 1]
     IN /\ calls' = Append(Disturbed(calls), call)
  /\ UNCHANGED <<service, now, interval, timers>>

\* (mutant) the store is bound to the resource the token was requested for
RefreshFulfilled_bindsResource(c, json) ==
  /\ service' = [StoreToken(service, json) EXCEPT !.connected = Bool(TRUE),
                                                  !.resource = Str(calls[c].resource)]
  /\ calls' = [calls EXCEPT ![c].request = "none",
                            ![c].stdout = Trace(calls[c].verbose, @, ResponseTrace(json)),
                            ![c].promise = resolve(@, Get(json, "access_token"))]
  /\ UNCHANGED <<interval, timers>>

\* Auth.ts:88-99: the refresh request is fulfilled
RefreshFulfilled(c, json) ==
  /\ service' = StoreToken(service, json)
  /\ calls' = [calls EXCEPT ![c].request = "none",
                            ![c].stdout = Trace(calls[c].verbose, @, ResponseTrace(json)),
                            ![c].promise = resolve(@, Get(json, "access_token"))]
  /\ UNCHANGED <<interval, timers>>

\* Auth.ts:107: what the refresh branch rejects with, json.error.error
RefreshFailure(json) == Get(Get(json, "error"), "error")

\* (mutant) a failed exchange discards the stored refresh token
RefreshRejected_dropsRefreshToken(c, json) ==
  /\ service' = [service EXCEPT !.refreshToken = Undefined]
  /\ calls' = [calls EXCEPT ![c].request = "none",
                            ![c].stdout = Trace(calls[c].verbose, @, ResponseTrace(json)),
                            ![c].promise = reject(@, RefreshFailure(json))]
  /\ UNCHANGED <<interval, timers>>

\* Auth.ts:100-109: the refresh request is rejected
RefreshRejected(c, json) ==
  /\ calls' = [calls EXCEPT ![c].request = "none",
                            ![c].stdout = Trace(calls[c].verbose, @, ResponseTrace(json)),
                            ![c].promise = reject(@, RefreshFailure(json))]
  /\ UNCHANGED <<service, interval, timers>>

RefreshResponse(c) ==
  /\ calls[c].op = "ensureAccessToken"
  /\ calls[c].request = "refresh"
  /\ \E resp \in TokenResponses(calls[c].resource) \cup FailureResponses :
       /\ IF resp.ok THEN RefreshFulfilled(c, resp.body) ELSE RefreshRejected(c, resp.body)
  /\ UNCHANGED now

\* (mutant) the message is part of the verbose trace
DeviceCodeFulfilled_messageInTrace(c, json) ==
  /\ timers' = timers \cup {c}
  /\ interval' = [timer |-> c]
  /\ calls' = [calls EXCEPT ![c].request = "none",
                            ![c].stdout = Trace(calls[c].verbose, @,
                                                Append(ResponseTrace(json), Get(json, "message")))]
  /\ UNCHANGED service

\* Auth.ts:131-191: the device-code request is fulfilled; the message is
\* shown and the polling timer is started, its handle kept in Auth.interval
DeviceCodeFulfilled(c, json) ==
  /\ timers' = timers \cup {c}
  /\ interval' = [timer |-> c]
  /\ calls' = [calls EXCEPT ![c].request = "none",
                            ![c].stdout = Append(Trace(calls[c].verbose, @, ResponseTrace(json)),
                                                 Get(json, "message"))]
  /\ UNCHANGED service

\* Auth.ts:192-194
DeviceCodeRejected(c, err) ==
  /\ calls' = [calls EXCEPT ![c].request = "none",
                            ![c].promise = reject(@, err)]
  /\ UNCHANGED <<service, interval, timers>>

DeviceCodeResponse(c) ==
  /\ calls[c].request = "devicecode"
  /\ \E resp \in DeviceCodeResponses :
       /\ IF resp.ok THEN DeviceCodeFulfilled(c, resp.body) ELSE DeviceCodeRejected(c, resp.body)
  /\ UNCHANGED now

\* Auth.ts:142-159: a tick of the interval timer issues one poll request
TimerTick(c) ==
  /\ c \in timers
  /\ PollsIssued(Len(calls)) < MaxPolls
  /\ calls' = [calls EXCEPT ![c].polls = @ + 1,
                            ![c].nPoll = @ + 1,
                            ![c].stdout = Trace(calls[c].verbose, @, RequestTrace)]
  /\ UNCHANGED <<service, now, interval, timers>>

\* (mutant) the flow keeps its token to itself
PollFulfilled_resolvesOnly(c, json) ==
  /\ timers' = clearInterval(interval)
  /\ calls' = [calls EXCEPT ![c].polls = @ - 1,
                            ![c].stdout = Trace(calls[c].verbose, @, ResponseTrace(json)),
                            ![c].redeemed = TRUE,
                            ![c].promise = resolve(@, Get(json, "access_token"))]
  /\ UNCHANGED <<service, interval>>

\* Auth.ts:160-172: a poll request is fulfilled
PollFulfilled(c, json) ==
  /\ service' = StoreToken(service, json)
  /\ timers' = clearInterval(interval)
  /\ calls' = [calls EXCEPT ![c].polls = @ - 1,
                            ![c].stdout = Trace(calls[c].verbose, @, ResponseTrace(json)),
                            ![c].redeemed = TRUE,
                            ![c].promise = resolve(@, service'.accessToken)]
  /\ UNCHANGED interval

\* (mutant) every rejected poll is treated as terminal
PollRejected_alwaysTerminal(c, rej2) ==
  /\ timers' = clearInterval(interval)
  /\ calls' = [calls EXCEPT ![c].polls = @ - 1,
                            ![c].stdout = Trace(calls[c].verbose, @, ResponseTrace(rej2)),
                            ![c].promise = reject(@, Get(Get(rej2, "error"), "error"))]
  /\ UNCHANGED <<service, interval>>

\* Auth.ts:173-190: a poll request is rejected
PollRejected(c, rej2) ==
  IF Get(Get(rej2, "error"), "error") # Str("authorization_pending")
  THEN /\ timers' = clearInterval(interval)
       /\ calls' = [calls EXCEPT ![c].polls = @ - 1,
                                 ![c].stdout = Trace(calls[c].verbose, @, ResponseTrace(rej2)),
                                 ![c].promise = reject(@, Get(Get(rej2, "error"), "error"))]
       /\ UNCHANGED <<service, interval>>
  ELSE /\ calls' = [calls EXCEPT ![c].polls = @ - 1,
                                 ![c].stdout = Trace(calls[c].verbose, @,
                                                     <<Str("Authorization pending...")>>)]
       /\ UNCHANGED <<service, interval, timers>>

\* What the token endpoint may answer to a poll of flow c: a device code is
\* redeemed once, after which it only yields failures
PollResponses(c) ==
  IF calls[c].redeemed
  THEN PollFailures
  ELSE TokenResponses(calls[c].resource) \cup PollFailures \cup {PendingResponse}

PollResponse(c) ==
  /\ calls[c].polls > 0
  /\ \E resp \in PollResponses(c) :
       /\ IF resp.ok THEN PollFulfilled(c, resp.body) ELSE PollRejected(c, resp.body)
  /\ UNCHANGED now

-----------------------------------------------------------------------------
(* Auth.getAccessToken *)

GetAccessToken(r, refreshToken, verbose) ==
  /\ Len(calls) < MaxCalls
  /\ LET c == Len(calls) + 1
         new == NewCall("getAccessToken", r, verbose)
     IN /\ calls' = Append(Disturbed(calls),
                           [new EXCEPT !.path = "get",
                                       !.stdout = Trace(verbose, @,
                                                        <<Str("Starting Auth.getAccessToken"),
                                                          Str("Retrieving access token using refresh token")>>
                                                          \o RequestTrace),
                                       !.request = "refresh",
                                       !.reqToken = refreshToken,
                                       !.nRefresh = 1])
  /\ UNCHANGED <<service, now, interval, timers>>

\* (mutant) the token is stored, as the refresh branch of ensureAccessToken does
GetFulfilled_storesToken(c, json) ==
  /\ service' = StoreToken(service, json)
  /\ calls' = [calls EXCEPT ![c].request = "none",
                            ![c].stdout = Trace(calls[c].verbose, @, ResponseTrace(json)),
                            ![c].promise = resolve(@, Get(json, "access_token"))]
  /\ UNCHANGED <<interval, timers>>

\* Auth.ts:226-233
GetFulfilled(c, json) ==
  /\ calls' = [calls EXCEPT ![c].request = "none",
                            ![c].stdout = Trace(calls[c].verbose, @, ResponseTrace(json)),
                            ![c].promise = resolve(@, Get(json, "access_token"))]
  /\ UNCHANGED <<service, interval, timers>>

\* Auth.ts:234-236
GetRejected(c, err) ==
  /\ calls' = [calls EXCEPT ![c].request = "none",
                            ![c].promise = reject(@, err)]
  /\ UNCHANGED <<service, interval, timers>>

GetResponse(c) ==
  /\ calls[c].op = "getAccessToken"
  /\ calls[c].request = "refresh"
  /\ \E resp \in TokenResponses(calls[c].resource) \cup FailureResponses :
       /\ IF resp.ok THEN GetFulfilled(c, resp.body) ELSE GetRejected(c, resp.body)
  /\ UNCHANGED now

-----------------------------------------------------------------------------

\* Service.disconnect
Disconnect ==
  /\ service' = disconnect(service)
  /\ calls' = Disturbed(calls)
  /\ UNCHANGED <<now, interval, timers>>

\* The wall clock read by `new Date().getTime() / 1000`
Tick ==
  /\ now < MaxNow
  /\ now' = now + 1
  /\ UNCHANGED <<service, interval, timers, calls>>

\* Auth.ts:39: the timer handle is public and is all the class offers to
\* stop a device-code flow from outside: clearInterval(auth.interval) while
\* the flow it refers to is polling
Cancel ==
  /\ "timer" \in DOMAIN interval
  /\ interval.timer \in timers
  /\ calls[interval.timer].promise = Pending
  /\ timers' = clearInterval(interval)
  /\ calls' = [calls EXCEPT ![interval.timer].cancelled = TRUE]
  /\ UNCHANGED <<service, now, interval>>

-----------------------------------------------------------------------------
(* Auth.getResourceFromUrl.  A string is the sequence of its characters;   *)
(* JavaScript counts positions from 0.                                     *)

Https == <<"h", "t", "t", "p", "s", ":", "/", "/">>

Http == <<"h", "t", "t", "p", ":", "/", "/">>

Chars == {"c", ".", "/"}

RECURSIVE Strings(_)
Strings(n) ==
  IF n = 0 THEN {<<>>}
  ELSE Strings(n - 1) \cup {Append(s, ch) : s \in Strings(n - 1), ch \in Chars}

\* spec.md, section 8
ContosoSite ==
  Https \o <<"c", "o", "n", "t", "o", "s", "o", ".", "s", "h", "a", "r", "e",
             "p", "o", "i", "n", "t", ".", "c", "o", "m",
             "/", "s", "i", "t", "e", "s", "/", "x">>

Urls ==
  {scheme \o rest : scheme \in {Https, Http}, rest \in Strings(MaxRest)}
    \cup {ContosoSite}

\* String.prototype.indexOf(ch, from): the first position >= from that holds
\* ch, or -1
RECURSIVE indexOf(_, _, _)
indexOf(s, ch, from) ==
  IF from >= Len(s) THEN -1
  ELSE IF s[from + 1] = ch THEN from
  ELSE indexOf(s, ch, from + 1)

\* String.prototype.substr(start, length), for 0 <= start
substr(s, start, length) ==
  SubSeq(s, start + 1, IF start + length > Len(s) THEN Len(s) ELSE start + length)

\* (mutant) the separator is kept
getResourceFromUrl_inclusive(u) ==
  LET pos == indexOf(u, "/", 8)
  IN IF pos > -1 THEN substr(u, 0, pos + 1) ELSE u

\* Auth.ts:240-248
getResourceFromUrl(u) ==
  LET pos == indexOf(u, "/", 8)
  IN IF pos > -1 THEN substr(u, 0, pos) ELSE u

\* A call of the function: its result is kept beside its argument
GetResourceFromUrl ==
  /\ result = Undefined
  /\ result' = Str(getResourceFromUrl(url))
  /\ UNCHANGED <<url, authVars, cmdVars>>

\* The next argument
NextUrl ==
  /\ result # Undefined
  /\ url' \in Urls
  /\ result' = Undefined
  /\ UNCHANGED <<authVars, cmdVars>>

-----------------------------------------------------------------------------
(* SpoTenantCdnGetCommand.action (tenant-cdn-get.ts:34-132).  auth.site is *)
(* the Service object of Auth; the command passes itself as stdout, and    *)
(* the lines ensureAccessToken logs are kept with the invocation in calls. *)
(* A handler of the promise chain runs as one step once the promise before *)
(* it has settled.  cmd.pc is the promise the chain waits for ("token",    *)
(* "contextinfo", "processquery"), "start" before the action has been      *)
(* invoked and "done" when no handler of the chain is left to run;         *)
(* cmd.unhandled is the exception the chain ended with, if any.            *)

\* args.options
Options == [type : {Undefined, Str("Public"), Str("Private")},
            verbose : {Undefined, Bool(FALSE), Bool(TRUE)}]

NewCommand(options) ==
  [options |-> options, pc |-> "start", call |-> 0, tracked |-> FALSE,
   log |-> <<>>, cbCalls |-> 0, unhandled |-> Undefined]

\* tenant-cdn-get.ts:36: args.options.verbose || false
verboseOf(options) == Truthy(options.verbose)

\* tenant-cdn-get.ts:37: args.options.type || 'Public'
cdnTypeString(options) == IF Truthy(options.type) THEN options.type ELSE Str("Public")

\* tenant-cdn-get.ts:38
cdnType(options) == IF cdnTypeString(options) = Str("Private") THEN 1 ELSE 0

\* A store left by the connect command: connected, with the tokens of the
\* device-code flow that command ran, valid until time 1
ConnectedStore ==
  [connected |-> Bool(TRUE), resource |-> Str("https://a.sharepoint.com"),
   accessToken |-> Str("AT for https://a.sharepoint.com"),
   refreshToken |-> Str("RT for https://a.sharepoint.com"),
   expiresAt |-> Num(1)]

ContextInfo == Obj([FormDigestValue |-> Str("0x1A2B")])

HttpError == Obj([name |-> Str("StatusCodeError"), statusCode |-> Num(403)])

ContextInfoResponses == {[ok |-> TRUE, body |-> ContextInfo],
                         [ok |-> FALSE, body |-> HttpError],
                         [ok |-> FALSE, body |-> TransportError]}

\* Bodies the ProcessQuery endpoint, or whatever stands in front of it, answers
EnabledBody == "[{\"SchemaVersion\":\"15.0.0.0\",\"ErrorInfo\":null},12,true]"

DisabledBody == "[{\"SchemaVersion\":\"15.0.0.0\",\"ErrorInfo\":null},12,false]"

ErrorInfoBody == "[{\"ErrorInfo\":{\"ErrorMessage\":\"Access denied\"}}]"

EmptyArrayBody == "[]"

HtmlBody == "<html><body>Service Unavailable</body></html>"

EmptyBody == ""

ProcessQueryResponses ==
  {[ok |-> TRUE, body |-> Str(b)] :
     b \in {EnabledBody, DisabledBody, ErrorInfoBody, EmptyArrayBody, HtmlBody, EmptyBody}}
    \cup {[ok |-> FALSE, body |-> HttpError], [ok |-> FALSE, body |-> TransportError]}

\* JSON.parse on these bodies: the value, or the exception it throws
JSONParse(text) ==
  CASE text = EnabledBody ->
         [value |-> Arr(<<Obj([SchemaVersion |-> Str("15.0.0.0"), ErrorInfo |-> Null]),
                          Num(12), Bool(TRUE)>>)]
    [] text = DisabledBody ->
         [value |-> Arr(<<Obj([SchemaVersion |-> Str("15.0.0.0"), ErrorInfo |-> Null]),
                          Num(12), Bool(FALSE)>>)]
    [] text = ErrorInfoBody ->
         [value |-> Arr(<<Obj([ErrorInfo |->
                                 Obj([ErrorMessage |-> Str("Access denied")])])>>)]
    [] text = EmptyArrayBody -> [value |-> Arr(<<>>)]
    [] OTHER -> [throws |-> "SyntaxError"]

\* json[i] on an array; an index outside it reads as undefined
At(json, i) ==
  IF "array" \in DOMAIN json /\ i >= 0 /\ i < Len(json.array)
  THEN json.array[i + 1]
  ELSE Undefined

\* this.log(line)
Log(cm, line) == [cm EXCEPT !.log = Append(@, line)]

\* cb()
cb(cm) == [cm EXCEPT !.cbCalls = @ + 1]

\* the chain has no handler left to run
Finished(cm) == [cm EXCEPT !.pc = "done"]

\* tenant-cdn-get.ts:127-130: the rejection handler of the chain
ChainRejected(cm, err) ==
  Finished(cb(Log(cm, [text |-> "Error: ", value |-> err])))

\* an exception no handler of the chain catches
Thrown(cm, name) == [Finished(cm) EXCEPT !.unhandled = Str(name)]

\* tenant-cdn-get.ts:35-60: the action is invoked
Action ==
  /\ cmd.pc = "start"
  /\ LET tracked == [cmd EXCEPT !.tracked = TRUE]
     IN IF ~Truthy(service.connected)
        THEN /\ cmd' = Finished(cb(Log(tracked,
                         Str("Connect to a SharePoint Online tenant admin site first"))))
             /\ UNCHANGED authVars
        ELSE IF ~tenantAdmin
        THEN /\ cmd' = Finished(cb(Log(tracked,
                         Str("is not a tenant admin site. Connect to your tenant admin site and try again"))))
             /\ UNCHANGED authVars
        ELSE /\ EnsureAccessToken(service.resource.string, verboseOf(cmd.options))
             /\ cmd' = [tracked EXCEPT !.pc = "token", !.call = Len(calls) + 1]
  /\ UNCHANGED <<tenantAdmin, urlVars>>

\* tenant-cdn-get.ts:62-83: the promise of ensureAccessToken has settled
TokenSettled ==
  /\ cmd.pc = "token"
  /\ calls[cmd.call].promise.state # "pending"
  /\ cmd' = IF calls[cmd.call].promise.state = "resolved"
            THEN [cmd EXCEPT !.pc = "contextinfo",
                             !.log = Trace(verboseOf(cmd.options), @,
                                           <<Str("Retrieved access token. Loading CDN settings...")>>
                                             \o RequestTrace)]
            ELSE ChainRejected(cmd, calls[cmd.call].promise.value)
  /\ UNCHANGED <<authVars, tenantAdmin, urlVars>>

\* tenant-cdn-get.ts:84-108: the contextinfo request is fulfilled
ContextInfoFulfilled(res) ==
  [cmd EXCEPT !.pc = "processquery",
              !.log = Trace(verboseOf(cmd.options),
                            Append(Trace(verboseOf(cmd.options), @, ResponseTrace(res)),
                                   [text |-> "Retrieving status of CDN...",
                                    value |-> Num(cdnType(cmd.options))]),
                            RequestTrace)]

ContextInfoResponse ==
  /\ cmd.pc = "contextinfo"
  /\ \E resp \in ContextInfoResponses :
       cmd' = IF resp.ok THEN ContextInfoFulfilled(resp.body)
                         ELSE ChainRejected(cmd, resp.body)
  /\ UNCHANGED <<authVars, tenantAdmin, urlVars>>

\* tenant-cdn-get.ts:109-126: the ProcessQuery request is fulfilled.  The
\* rejection handler is the second argument of this same then(), so it does
\* not see what this handler throws
ProcessQueryFulfilled(res) ==
  LET traced == [cmd EXCEPT !.log = Trace(verboseOf(cmd.options), @, ResponseTrace(res))]
      parsed == JSONParse(res.string)
  IN IF "throws" \in DOMAIN parsed
     THEN Thrown(traced, parsed.throws)
     ELSE LET json == parsed.value
              response == At(json, 0)
          IN IF response \in {Undefined, Null}
             THEN Thrown(traced, "TypeError")
             ELSE IF Truthy(Get(response, "ErrorInfo"))
             THEN Finished(cb(Log(traced,
                    [text |-> "Error: ",
                     value |-> Get(Get(response, "ErrorInfo"), "ErrorMessage")])))
             ELSE Finished(cb(Log(traced,
                    [text |-> "CDN is enabled: ",
                     value |-> Bool(At(json, Len(json.array) - 1) = Bool(TRUE)),
                     type |-> IF cdnType(cmd.options) = 0 THEN "Public" ELSE "Private"])))

ProcessQueryResponse ==
  /\ cmd.pc = "processquery"
  /\ \E resp \in ProcessQueryResponses :
       cmd' = IF resp.ok THEN ProcessQueryFulfilled(resp.body)
                         ELSE ChainRejected(cmd, resp.body)
  /\ UNCHANGED <<authVars, tenantAdmin, urlVars>>

-----------------------------------------------------------------------------

Init ==
  /\ service = Uninitialised
  /\ now = 0
  /\ interval = Undefined
  /\ timers = {}
  /\ calls = <<>>
  /\ url = <<>>
  /\ result = Undefined
  /\ cmd = NewCommand([type |-> Undefined, verbose |-> Undefined])
  /\ tenantAdmin = FALSE

\* The resources an invocation may name.  Resource names are interchangeable,
\* so the first invocation of a run names the first resource.
Callable == IF calls = <<>> THEN {"https://a.sharepoint.com"} ELSE Resources

\* A step of Auth leaves the rest of the state alone
InAuth(A) == A /\ UNCHANGED <<urlVars, cmdVars>>

Next ==
  \/ \E r \in Callable : InAuth(EnsureAccessToken(r, FALSE))
  \/ \E c \in Calls : InAuth(RefreshResponse(c))
  \/ \E c \in Calls : InAuth(DeviceCodeResponse(c))
  \/ \E c \in Calls : InAuth(TimerTick(c))
  \/ \E c \in Calls : InAuth(PollResponse(c))
  \/ \E r \in Callable : InAuth(GetAccessToken(r, SuppliedToken, FALSE))
  \/ \E c \in Calls : InAuth(GetResponse(c))
  \/ InAuth(Disconnect)
  \/ InAuth(Tick)

Spec == Init /\ [][Next]_vars

\* The program with a caller that may cancel.  Every request is settled by
\* the HTTP library (with a response or with a transport error), and a live
\* interval timer fires: each handler that is continuously enabled runs.
CancelNext ==
  \/ Next
  \/ InAuth(Cancel)

Fairness ==
  \A c \in 1..MaxCalls :
    /\ WF_vars(c \in Calls /\ InAuth(RefreshResponse(c)))
    /\ WF_vars(c \in Calls /\ InAuth(DeviceCodeResponse(c)))
    /\ WF_vars(c \in Calls /\ InAuth(TimerTick(c)))
    /\ WF_vars(c \in Calls /\ InAuth(PollResponse(c)))
    /\ WF_vars(c \in Calls /\ InAuth(GetResponse(c)))

CancelSpec == Init /\ [][CancelNext]_vars /\ Fairness

\* Device-code flows started by callers that pass either value of verbose:
\* the clock stands still and the store is not disconnected, so that a call
\* either starts a device-code flow or finds the token of an earlier one
VerboseNext ==
  \/ \E r \in Callable, verbose \in BOOLEAN : InAuth(EnsureAccessToken(r, verbose))
  \/ \E c \in Calls : InAuth(DeviceCodeResponse(c))
  \/ \E c \in Calls : InAuth(TimerTick(c))
  \/ \E c \in Calls : InAuth(PollResponse(c))

VerboseSpec == Init /\ [][VerboseNext]_vars

\* Calls of getResourceFromUrl, on every URL of the bounded set
UrlInit ==
  /\ url \in Urls
  /\ result = Undefined
  /\ service = Uninitialised
  /\ now = 0
  /\ interval = Undefined
  /\ timers = {}
  /\ calls = <<>>
  /\ cmd = NewCommand([type |-> Undefined, verbose |-> Undefined])
  /\ tenantAdmin = FALSE

UrlNext ==
  \/ GetResourceFromUrl
  \/ NextUrl

UrlSpec == UrlInit /\ [][UrlNext]_vars

\* One invocation of the command, with any options, on a store that is as
\* constructed, disconnected or connected, before or after the stored access
\* token has expired
CmdInit ==
  /\ service \in {Uninitialised, disconnect(Uninitialised), ConnectedStore}
  /\ tenantAdmin \in BOOLEAN
  /\ cmd \in {NewCommand(options) : options \in Options}
  /\ now = 0
  /\ interval = Undefined
  /\ timers = {}
  /\ calls = <<>>
  /\ url = <<>>
  /\ result = Undefined

CmdNext ==
  \/ Action
  \/ InAuth(Tick)
  \/ \E c \in Calls : InAuth(RefreshResponse(c))
  \/ TokenSettled
  \/ ContextInfoResponse
  \/ ProcessQueryResponse

CmdSpec == CmdInit /\ [][CmdNext]_vars

-----------------------------------------------------------------------------
(* Vocabulary of the properties *)

NonEmpty(v) == "string" \in DOMAIN v /\ v.string # ""

Resolved(v) == [state |-> "resolved", value |-> v]

Rejected(v) == [state |-> "rejected", value |-> v]

\* The invocation has put nothing on the network
NoTraffic(call) ==
  /\ call.request = "none"
  /\ call.polls = 0
  /\ call.nRefresh = 0
  /\ call.nDevice = 0
  /\ call.nPoll = 0

-----------------------------------------------------------------------------
(* C1: a call of ensureAccessToken made while accessToken is non-empty and *)
(* expiresAt > now resolves at once with the cached access token, and that *)
(* call never issues a request (refresh, device code or poll) and never    *)
(* owns a timer.                                                           *)

C1_CachedTokenNoNetwork ==
  /\ [][\A r \in Resources :
          (/\ EnsureAccessToken(r, FALSE)
           /\ NonEmpty(service.accessToken)
           /\ Gt(service.expiresAt, Num(now)))
          => (/\ calls'[Len(calls')].promise = Resolved(service.accessToken)
              /\ NoTraffic(calls'[Len(calls')])
              /\ timers' = timers
              /\ service' = service)]_vars
  /\ [](\A c \in Calls :
          calls[c].path = "cache" => NoTraffic(calls[c]) /\ c \notin timers)

C1_Witness ==
  \E c \in Calls :
    /\ calls[c].path = "cache"
    /\ calls[c].promise.state = "resolved"
    /\ NonEmpty(calls[c].promise.value)
    /\ calls[c].promise.value = service.accessToken

-----------------------------------------------------------------------------
(* C2: a call of ensureAccessToken made while the cached token is empty or *)
(* expired and a refresh token is set issues exactly one refresh-token     *)
(* exchange, carrying the stored refresh token, and nothing else (no       *)
(* retry, no device-code request, no poll, no timer); when the exchange    *)
(* is fulfilled the TokenStore holds the response's access_token,          *)
(* refresh_token and expires_on and the call resolves with access_token.   *)

C2_SingleRefreshExchange ==
  /\ [][\A r \in Resources :
          (/\ EnsureAccessToken(r, FALSE)
           /\ ~NonEmpty(service.accessToken) \/ ~Gt(service.expiresAt, Num(now))
           /\ Truthy(service.refreshToken))
          => (/\ calls'[Len(calls')].path = "refresh"
              /\ calls'[Len(calls')].request = "refresh"
              /\ calls'[Len(calls')].reqToken = service.refreshToken
              /\ calls'[Len(calls')].promise = Pending)]_vars
  /\ [](\A c \in Calls :
          calls[c].path = "refresh"
          => (/\ calls[c].nRefresh = 1
              /\ calls[c].nDevice = 0
              /\ calls[c].nPoll = 0
              /\ calls[c].polls = 0
              /\ c \notin timers))
  /\ [][\A c \in Calls : \A resp \in TokenResponses(calls[c].resource) :
          (/\ calls[c].path = "refresh"
           /\ calls[c].request = "refresh"
           /\ RefreshFulfilled(c, resp.body))
          => (/\ service'.accessToken = Get(resp.body, "access_token")
              /\ service'.refreshToken = Get(resp.body, "refresh_token")
              /\ service'.expiresAt = Get(resp.body, "expires_on")
              /\ calls'[c].promise = Resolved(Get(resp.body, "access_token"))
              /\ calls'[c].request = "none")]_vars

C2_Witness ==
  \E c \in Calls :
    /\ calls[c].path = "refresh"
    /\ calls[c].request = "none"
    /\ calls[c].promise.state = "resolved"
    /\ calls[c].promise.value = service.accessToken
    /\ NonEmpty(service.refreshToken)

-----------------------------------------------------------------------------
(* C3: a call of ensureAccessToken made with no refresh token and no valid *)
(* cached token issues exactly one device-code request and no refresh      *)
(* exchange; and when a poll of a flow whose promise is pending is         *)
(* fulfilled with a token triple, the flow's timer is cancelled, the       *)
(* TokenStore holds the triple and the call resolves with the new access   *)
(* token.                                                                  *)

C3_DeviceCodeFlow ==
  /\ [][\A r \in Resources :
          (/\ EnsureAccessToken(r, FALSE)
           /\ ~Truthy(service.refreshToken)
           /\ ~(NonEmpty(service.accessToken) /\ Gt(service.expiresAt, Num(now))))
          => (/\ calls'[Len(calls')].path = "device"
              /\ calls'[Len(calls')].request = "devicecode"
              /\ calls'[Len(calls')].promise = Pending)]_vars
  /\ [](\A c \in Calls :
          calls[c].path = "device" => calls[c].nDevice = 1 /\ calls[c].nRefresh = 0)
  /\ [][\A c \in Calls : \A resp \in TokenResponses(calls[c].resource) :
          (/\ calls[c].polls > 0
           /\ calls[c].promise = Pending
           /\ PollFulfilled(c, resp.body))
          => (/\ c \notin timers'
              /\ service'.accessToken = Get(resp.body, "access_token")
              /\ service'.refreshToken = Get(resp.body, "refresh_token")
              /\ service'.expiresAt = Get(resp.body, "expires_on")
              /\ calls'[c].promise = Resolved(Get(resp.body, "access_token")))]_vars

-----------------------------------------------------------------------------
(* C4: handling a poll response whose error code is authorization_pending  *)
(* leaves the set of live timers, the timer handle, the TokenStore and the *)
(* flow's promise as they were; a flow whose timer was live stays in       *)
(* Polling, so the next tick issues a poll.                                *)

C4_PendingKeepsPolling ==
  [][\A c \in Calls :
       (/\ calls[c].polls > 0
        /\ PollRejected(c, PendingResponse.body))
       => (/\ timers' = timers
           /\ interval' = interval
           /\ service' = service
           /\ calls'[c].promise = calls[c].promise
           /\ calls'[c].polls = calls[c].polls - 1)]_vars

\* a flow that has handled a poll response, is still pending and still polls:
\* every response it has handled was authorization_pending
C4_Witness ==
  \E c \in Calls :
    /\ calls[c].path = "device"
    /\ calls[c].nPoll > calls[c].polls
    /\ calls[c].promise = Pending
    /\ c \in timers
    /\ calls[c].store0 = Obj(service)

-----------------------------------------------------------------------------
(* C5: handling a poll response with an error code other than              *)
(* authorization_pending, while the flow's promise is pending, cancels the *)
(* flow's polling timer and rejects the promise with exactly that code.    *)

C5_TerminalPollError ==
  [][\A c \in Calls : \A code \in {"code_expired", "invalid_grant"} :
       (/\ calls[c].polls > 0
        /\ calls[c].promise = Pending
        /\ PollRejected(c, Error(code)))
       => (/\ c \notin timers'
           /\ calls'[c].promise = Rejected(Str(code)))]_vars

-----------------------------------------------------------------------------
(* C6: when a call of ensureAccessToken has been rejected, and no other    *)
(* operation overlapped it or was invoked after it, the TokenStore is as   *)
(* it was when the call started.                                           *)

C6_FailureLeavesStore ==
  \A c \in Calls :
    (/\ calls[c].op = "ensureAccessToken"
     /\ calls[c].promise.state = "rejected"
     /\ calls[c].store0 # Undefined)
    => Obj(service) = calls[c].store0

-----------------------------------------------------------------------------
(* C7: disconnect() leaves connected=false, accessToken='', resource='',   *)
(* refreshToken=undefined, expiresAt=-1 whatever the state before, and     *)
(* disconnecting a second time changes nothing.                            *)

Disconnected ==
  [connected |-> Bool(FALSE), resource |-> Str(""), accessToken |-> Str(""),
   refreshToken |-> Undefined, expiresAt |-> Num(-1)]

C7_DisconnectResets ==
  /\ [][Disconnect => service' = Disconnected]_vars
  /\ [](disconnect(service) = Disconnected)
  /\ [](disconnect(disconnect(service)) = disconnect(service))

\* disconnect() has acted after a token had been acquired, with a flow in progress
C7_Witness ==
  /\ service = Disconnected
  /\ \E c \in Calls : calls[c].promise.state = "resolved" /\ calls[c].path = "device"
  /\ \E c \in Calls : calls[c].promise = Pending /\ c \in timers

-----------------------------------------------------------------------------
(* C8: getAccessToken issues exactly one refresh-token exchange, carrying  *)
(* the supplied refresh token whatever the TokenStore holds; neither the   *)
(* call nor the handling of its response changes the TokenStore; when the  *)
(* exchange is fulfilled the call resolves with the response's             *)
(* access_token.                                                           *)

C8_GetAccessTokenFrame ==
  /\ [][\A r \in Resources :
          GetAccessToken(r, SuppliedToken, FALSE)
          => (/\ service' = service
              /\ calls'[Len(calls')].request = "refresh"
              /\ calls'[Len(calls')].reqToken = SuppliedToken)]_vars
  /\ [](\A c \in Calls :
          calls[c].op = "getAccessToken"
          => (/\ calls[c].nRefresh = 1
              /\ calls[c].nDevice = 0
              /\ calls[c].nPoll = 0
              /\ calls[c].polls = 0
              /\ calls[c].reqToken = SuppliedToken
              /\ c \notin timers))
  /\ [][\A c \in Calls :
          \A resp \in TokenResponses(calls[c].resource) \cup FailureResponses :
          (/\ calls[c].op = "getAccessToken"
           /\ calls[c].request = "refresh"
           /\ IF resp.ok THEN GetFulfilled(c, resp.body) ELSE GetRejected(c, resp.body))
          => (/\ service' = service
              /\ timers' = timers
              /\ calls'[c].request = "none"
              /\ resp.ok => calls'[c].promise = Resolved(Get(resp.body, "access_token")))]_vars

\* getAccessToken has resolved with a token while the TokenStore holds a
\* different refresh token than the one supplied and a different access token
C8_Witness ==
  \E c \in Calls :
    /\ calls[c].op = "getAccessToken"
    /\ calls[c].promise.state = "resolved"
    /\ NonEmpty(service.refreshToken)
    /\ service.refreshToken # calls[c].reqToken
    /\ service.accessToken # calls[c].promise.value

-----------------------------------------------------------------------------
(* C9: when the token endpoint fails a request of getAccessToken, the call *)
(* rejects with the value the refresh branch of ensureAccessToken rejects  *)
(* with for the same response: the error code, json.error.error.           *)

C9_SameFailureValue ==
  [][\A c \in Calls : \A resp \in FailureResponses :
       (/\ calls[c].op = "getAccessToken"
        /\ calls[c].request = "refresh"
        /\ GetRejected(c, resp.body))
       => calls'[c].promise = Rejected(RefreshFailure(resp.body))]_vars

-----------------------------------------------------------------------------
(* C10: once the promise of a device-code flow has settled, the flow's     *)
(* polling timer is not live, so that no further tick fires for it.        *)

C10_TimerStoppedOnCompletion ==
  \A c \in Calls :
    (calls[c].path = "device" /\ calls[c].promise.state # "pending")
    => c \notin timers

-----------------------------------------------------------------------------
(* C11: once a device-code flow in Polling has been cancelled from outside *)
(* (its timer stopped through the handle), its promise is eventually       *)
(* settled: it does not stay pending forever.  (The claim asks for a       *)
(* cancellation-specific failure; stated here in the weakest form, any     *)
(* settlement.)                                                            *)

C11_CancellationSettles ==
  \A c \in 1..MaxCalls :
    [](c \in Calls /\ calls[c].cancelled
         => <>(c \in Calls /\ calls[c].promise.state # "pending"))

-----------------------------------------------------------------------------
(* C12: when a request of ensureAccessToken (the refresh POST, the         *)
(* device-code GET or a poll POST) fails at transport level, the pending   *)
(* call is rejected with that failure value, unchanged.                    *)

C12_TransportFailureSurfaced ==
  [][\A c \in Calls :
       /\ (/\ calls[c].op = "ensureAccessToken"
           /\ calls[c].request = "refresh"
           /\ RefreshRejected(c, TransportError))
          => calls'[c].promise = Rejected(TransportError)
       /\ (/\ calls[c].request = "devicecode"
           /\ DeviceCodeRejected(c, TransportError))
          => calls'[c].promise = Rejected(TransportError)
       /\ (/\ calls[c].polls > 0
           /\ calls[c].promise = Pending
           /\ PollRejected(c, TransportError))
          => calls'[c].promise = Rejected(TransportError)]_vars

-----------------------------------------------------------------------------
(* C13: for a URL u that starts with https://, getResourceFromUrl(u) is    *)
(* the prefix of u that ends just before the first '/' after the scheme,   *)
(* and u itself when no '/' follows the scheme; the URL                    *)
(* https://contoso.sharepoint.com/sites/x gives                            *)
(* https://contoso.sharepoint.com.                                         *)

IsHttps(u) == Len(u) >= Len(Https) /\ SubSeq(u, 1, Len(Https)) = Https

\* the 1-based positions of the '/' characters after the scheme
SlashesAfterScheme(u) == {i \in Len(Https) + 1 .. Len(u) : u[i] = "/"}

ContosoOrigin ==
  <<"h", "t", "t", "p", "s", ":", "/", "/",
    "c", "o", "n", "t", "o", "s", "o", ".", "s", "h", "a", "r", "e",
    "p", "o", "i", "n", "t", ".", "c", "o", "m">>

C13_ResourceFromUrl ==
  (IsHttps(url) /\ result # Undefined)
    => /\ IF SlashesAfterScheme(url) = {}
          THEN result = Str(url)
          ELSE \E i \in SlashesAfterScheme(url) :
                 /\ \A j \in SlashesAfterScheme(url) : i <= j
                 /\ result = Str(SubSeq(url, 1, i - 1))
       /\ url = ContosoSite => result = Str(ContosoOrigin)

\* the function has truncated a URL with a path, and the example of the spec
C13_Witness ==
  /\ url = ContosoSite
  /\ result = Str(ContosoOrigin)

-----------------------------------------------------------------------------
(* C14: in every reachable state the TokenStore is either fully            *)
(* disconnected (connected=false, accessToken='', resource='',             *)
(* refreshToken=undefined, expiresAt=-1) or holds an access token, and     *)
(* every step that writes the store other than by resetting it assigns an  *)
(* access token together with an expiry that is in the future at the time  *)
(* of the assignment.                                                      *)

HoldsToken == NonEmpty(service.accessToken) /\ "number" \in DOMAIN service.expiresAt

\* the store is written, and not reset: the token is valid as it is assigned
ValidAtAssignment ==
  (service' # service /\ service' # Disconnected)
    => (NonEmpty(service'.accessToken) /\ Gt(service'.expiresAt, Num(now)))

-----------------------------------------------------------------------------
(* C15: once the TokenStore holds a refresh token, every step other than   *)
(* disconnect() (an invocation of ensureAccessToken or getAccessToken, a   *)
(* response to either, fulfilled or rejected, a timer tick) leaves a       *)
(* non-empty refresh token in the store.                                   *)

C15_RefreshTokenPersists ==
  [][(NonEmpty(service.refreshToken) /\ ~Disconnect)
       => NonEmpty(service'.refreshToken)]_vars

\* with a refresh token stored, a later call has failed on the refresh path
C15_Witness ==
  /\ NonEmpty(service.refreshToken)
  /\ \E c \in Calls :
       /\ calls[c].path = "refresh"
       /\ calls[c].promise.state = "rejected"

-----------------------------------------------------------------------------
(* C16: calls of ensureAccessToken for different resources share one       *)
(* store without isolation.  Every call that resolves after a refresh or   *)
(* a device-code flow resolves with the token issued for its own           *)
(* resource, and every fulfilled response writes its token into the shared *)
(* store whatever other flows are in progress; so there are reachable      *)
(* states (C16_Witness) in which two concurrent calls have both written    *)
(* the store, one has resolved with the token of its resource and the      *)
(* store holds the token issued for the other resource.                    *)

OwnToken(c) == Get(Token(calls[c].resource, 0), "access_token")

C16_SharedStoreRace ==
  /\ [](\A c \in Calls :
          (calls[c].path \in {"refresh", "device"} /\ calls[c].promise.state = "resolved")
          => calls[c].promise.value = OwnToken(c))
  /\ [][\A c \in Calls : \A resp \in TokenResponses(calls[c].resource) :
          (\/ calls[c].path = "refresh" /\ calls[c].request = "refresh"
                /\ RefreshFulfilled(c, resp.body)
           \/ calls[c].polls > 0 /\ PollFulfilled(c, resp.body))
          => service'.accessToken = OwnToken(c)]_vars

\* two device-code flows for different resources ran concurrently (the
\* second started with no refresh token stored and the store was never
\* disconnected), both were fulfilled, and the store holds the token of one
\* resource while the call for the other has resolved with its own
C16_Witness ==
  \E a, b \in Calls :
    /\ calls[a].resource # calls[b].resource
    /\ calls[a].path = "device" /\ calls[b].path = "device"
    /\ service.connected = Undefined
    /\ calls[a].redeemed /\ calls[b].redeemed
    /\ calls[a].promise = Resolved(OwnToken(a))
    /\ calls[b].promise = Resolved(OwnToken(b))
    /\ service.accessToken = OwnToken(b)
    /\ service.accessToken # calls[a].promise.value

-----------------------------------------------------------------------------
(* C17: when the device-code request of a flow is fulfilled, the message   *)
(* of the response is on the flow's output from then on, whether verbose   *)
(* is on or off, and no timer of the flow was live and no poll had been    *)
(* issued before; a flow whose output lacks the message has no live timer  *)
(* and has issued no poll.  When the device-code request is rejected, the  *)
(* message is not shown, and a flow with no device-code request in flight  *)
(* and no message shown never shows one: it never starts a timer and never *)
(* polls.                                                                  *)

MessageShown(call) ==
  \E i \in DOMAIN call.stdout : call.stdout[i] = Get(DeviceCode, "message")

C17_MessageBeforePolling ==
  /\ [](\A c \in Calls :
          (c \in timers \/ calls[c].nPoll > 0 \/ calls[c].polls > 0)
          => MessageShown(calls[c]))
  /\ [][\A c \in Calls :
          (calls[c].request = "devicecode" /\ DeviceCodeFulfilled(c, DeviceCode))
          => (/\ c \notin timers
              /\ calls[c].nPoll = 0
              /\ ~MessageShown(calls[c])
              /\ MessageShown(calls'[c]))]_vars
  /\ [][\A c \in Calls :
          (calls[c].request = "devicecode" /\ DeviceCodeRejected(c, TransportError))
          => (/\ ~MessageShown(calls'[c])
              /\ c \notin timers'
              /\ calls'[c].nPoll = 0)]_vars
  /\ [][\A c \in Calls :
          (calls[c].request # "devicecode" /\ ~MessageShown(calls[c]))
          => ~MessageShown(calls'[c])]_vars

\* a flow started with verbose off has shown the message and has polled,
\* beside a flow whose device-code request failed
C17_Witness ==
  \E c, f \in Calls :
    /\ calls[c].path = "device"
    /\ ~calls[c].verbose
    /\ calls[c].stdout = <<Get(DeviceCode, "message")>>
    /\ calls[c].nPoll > 0
    /\ calls[f].path = "device"
    /\ calls[f].promise = Rejected(TransportError)
    /\ calls[f].request = "none"
    /\ calls[f].nPoll = 0
    /\ calls[f].verbose
    /\ ~MessageShown(calls[f])

-----------------------------------------------------------------------------
(* C18: an invocation of ensureAccessToken settles its promise at most     *)
(* once (a settled promise never changes), writes the TokenStore at most   *)
(* once (no token response is handled by a flow that has already stored    *)
(* one) and never writes the TokenStore once its promise has settled (no   *)
(* token response is handled by a flow whose promise is settled), also     *)
(* with several polls of the flow in flight.                               *)

\* the step is the handling of a token response by invocation c
StoresToken(c) ==
  \E resp \in TokenResponses(calls[c].resource) :
    \/ /\ calls[c].op = "ensureAccessToken"
       /\ calls[c].request = "refresh"
       /\ RefreshFulfilled(c, resp.body)
    \/ /\ calls[c].polls > 0
       /\ PollFulfilled(c, resp.body)

C18_SettleOnceWriteOnce ==
  /\ [][\A c \in Calls :
          calls[c].promise.state # "pending" => calls'[c].promise = calls[c].promise]_vars
  /\ [][\A c \in Calls : StoresToken(c) => ~calls[c].redeemed]_vars
  /\ [][\A c \in Calls : StoresToken(c) => calls[c].promise = Pending]_vars

-----------------------------------------------------------------------------
(* C19: every step other than disconnect() (an invocation of               *)
(* ensureAccessToken or getAccessToken on any path, a response to either,  *)
(* a timer tick) leaves TokenStore.connected and TokenStore.resource as    *)
(* they were; the stored resource is not set to the resource a new token   *)
(* was requested for.                                                      *)

C19_ConnectedResourceFrame ==
  [][~Disconnect
       => (/\ service'.connected = service.connected
           /\ service'.resource = service.resource)]_vars

\* after disconnect(), a flow has stored the token issued for the resource
\* of its call, and the store still names no resource and is not connected
C19_Witness ==
  /\ service.resource = Str("")
  /\ service.connected = Bool(FALSE)
  /\ \E c \in Calls :
       /\ calls[c].path \in {"refresh", "device"}
       /\ calls[c].promise = Resolved(OwnToken(c))
       /\ service.accessToken = OwnToken(c)

-----------------------------------------------------------------------------
(* C20: an invocation of the action of `spo tenant cdn get` calls cb       *)
(* exactly once: never more than once, and once by the time no handler of  *)
(* its promise chain is left to run, whichever way it went (not connected, *)
(* not a tenant admin site, token not acquired, either request failed, an  *)
(* error reported by the service, a response that does not parse, success).*)

C20_CallbackExactlyOnce ==
  /\ cmd.cbCalls <= 1
  /\ cmd.pc = "done" => cmd.cbCalls = 1

====
